---- MODULE Spec2Model ----
(***************************************************************************)
(* RunRouter of bluesky/callbacks/core.py: routes documents, by run, to    *)
(* the callbacks it creates from factory functions.  One action per        *)
(* document handler; a step is one call router(name, doc) run to the end.  *)
(***************************************************************************)
EXTENDS Integers, Sequences, FiniteSets, TLC

VARIABLES callbacks, descriptors, resources, phase, lastDoc, calls, fcalls, raised,
          inflight

vars == <<callbacks, descriptors, resources, phase, lastDoc, calls, fcalls, raised,
          inflight>>

(* ---------------------------- universe -------------------------------- *)

\* longest callback list a run may collect (repeated start documents append)
MaxCallbacks == 2

Runs == {"r1", "r2"}
DescUids == {"d1", "d2"}
ResUids == {"s1", "s2"}

\* the run a descriptor or resource uid is minted for by a document source
\* that keeps the uids of different runs disjoint
Owner(u) == IF u \in {"d1", "s1"} THEN "r1" ELSE "r2"

\* a key the document does not carry
NoField == "-"

\* what a callback factory does with a start document
Returns == {"None", "cb", "raise"}

\* what the factories of callback_factories.py do with a start document:
\* "return callbacks", a list, or an exception out of the lookups of
\* hints['dimensions'] and start_doc['detectors']
RepositoryReturns == {"list", "raise"}

\* what a factory does that answers with an instance of a class derived from
\* Callback, overriding nothing
CallbackReturns == {"None", "Callback", "raise"}

NoError == "none"
KeyError == "KeyError"
FactoryException == "FactoryException"
TypeError == "TypeError"
AttributeError == "AttributeError"

\* the methods class Callback defines next to __init__ and __call__
CallbackMethods ==
    {"event", "bulk_events", "resource", "datum", "bulk_datum", "descriptor", "stop"}

Doc(uid, run_start, desc, res) ==
    [uid |-> uid, run_start |-> run_start, descriptor |-> desc, resource |-> res]

\* the documents of each kind: the well-formed ones and those that lack a
\* key the handler reads
StartDocs == {Doc(r, NoField, NoField, NoField) : r \in Runs \cup {NoField}}
DescriptorDocs ==
    {Doc(d, Owner(d), NoField, NoField) : d \in DescUids}
        \cup {Doc(NoField, r, NoField, NoField) : r \in Runs}
        \cup {Doc(d, NoField, NoField, NoField) : d \in DescUids}
ResourceDocs ==
    {Doc(s, Owner(s), NoField, NoField) : s \in ResUids}
        \cup {Doc(NoField, r, NoField, NoField) : r \in Runs}
        \cup {Doc(s, NoField, NoField, NoField) : s \in ResUids}
EventDocs == {Doc(NoField, NoField, d, NoField) : d \in DescUids \cup {NoField}}
DatumDocs == {Doc(NoField, NoField, NoField, s) : s \in ResUids \cup {NoField}}
StopDocs == {Doc(NoField, r, NoField, NoField) : r \in Runs \cup {NoField}}

(* ------------------------- dictionary helpers -------------------------- *)

\* defaultdict(list).__getitem__: the value read ...
DefaultGet(m, k) == IF k \in DOMAIN m THEN m[k] ELSE <<>>

\* ... and the dictionary it leaves behind (a missing key is inserted)
DefaultTouch(m, k) == IF k \in DOMAIN m THEN m ELSE m @@ (k :> <<>>)

\* dict.__setitem__
SetItem(m, k, v) == [x \in DOMAIN m \cup {k} |-> IF x = k THEN v ELSE m[x]]

\* a pop that reads the value and leaves the key in place
DelItem_keep(m, k) == m

\* dict without key k
DelItem(m, k) == [x \in DOMAIN m \ {k} |-> m[x]]

\* stop() that empties the descriptor and resource dictionaries
PurgeRun_all(index, start_uid) == <<>>

\* stop() that forgets the loops over the descriptor and resource dictionaries
PurgeRun_keep(index, start_uid) == index

\* the loops of stop(): delete every entry whose value is start_uid
PurgeRun(index, start_uid) ==
    [x \in {k \in DOMAIN index : index[k] # start_uid} |-> index[x]]

\* what a callback could see of the router while it is being called: the
\* keys of callbacks and the descriptor and resource dictionaries
Indices(cbm, dm, rm) == [runs |-> DOMAIN cbm, descriptors |-> dm, resources |-> rm]

\* cb(name, doc): a list object is not callable; Callback.__call__ is
\* getattr(self, name)(doc); any other callable takes every document
Call(cb, name) ==
    IF cb.kind = "list" THEN TypeError
    ELSE IF cb.kind = "Callback" /\ name \notin CallbackMethods THEN AttributeError
    ELSE NoError

\* the place in cbs of the first callback whose call raises, 0 when none does
FirstRaising(cbs, name) ==
    IF \E i \in DOMAIN cbs : Call(cbs[i], name) # NoError
    THEN CHOOSE i \in DOMAIN cbs :
             /\ Call(cbs[i], name) # NoError
             /\ \A j \in 1..(i - 1) : Call(cbs[j], name) = NoError
    ELSE 0

\* the exception that ends "for cb in cbs: cb(name, doc)", NoError when the
\* loop runs to its end
ForwardError(cbs, name) ==
    IF FirstRaising(cbs, name) = 0 THEN NoError
    ELSE Call(cbs[FirstRaising(cbs, name)], name)

\* "for cb in reversed(cbs)"
Forward_reversed(cbs, name, doc, ix) ==
    [i \in 1..Len(cbs) |->
        [cb |-> cbs[Len(cbs) + 1 - i], name |-> name, doc |-> doc, at |-> ix]]

\* for cb in cbs: cb(name, doc), the router's dictionaries being ix
\* meanwhile: the calls made, the last of them being the one that raised
Forward(cbs, name, doc, ix) ==
    LET last == IF FirstRaising(cbs, name) = 0 THEN Len(cbs)
                ELSE FirstRaising(cbs, name)
    IN  [i \in 1..last |-> [cb |-> cbs[i], name |-> name, doc |-> doc, at |-> ix]]

(* ------------------------------ router --------------------------------- *)

callback_factories == <<"f1", "f2">>

FactoryNames == {callback_factories[i] : i \in DOMAIN callback_factories}

\* the callable factory f returns for start document doc
NewCallback(f, doc) == [factory |-> f, run |-> doc.uid, kind |-> "callable"]

\* the object start() appends for a factory result r that is not None
Stored(f, doc, r) ==
    IF r = "cb" THEN NewCallback(f, doc) ELSE [NewCallback(f, doc) EXCEPT !.kind = r]

\* threads that may call the router at the same time
Producers == {"p1", "p2"}

\* a producer that is not inside a handler
Idle ==
    [pc |-> "idle", name |-> "none", doc |-> Doc(NoField, NoField, NoField, NoField),
     start_uid |-> NoField, cbs |-> <<>>]

Init ==
    /\ inflight = [p \in Producers |-> Idle]
    /\ callbacks = <<>>
    /\ descriptors = <<>>
    /\ resources = <<>>
    /\ phase = [r \in Runs |-> "new"]
    /\ lastDoc = [name |-> "none", doc |-> Doc(NoField, NoField, NoField, NoField)]
    /\ calls = <<>>
    /\ fcalls = <<>>
    /\ raised = NoError

\* start() with "break" where the code has "continue": the first factory that
\* returns None ends the loop
RECURSIVE StartLoop_break(_, _, _, _)
StartLoop_break(doc, ret, i, acc) ==
    IF i > Len(callback_factories) THEN acc
    ELSE LET f == callback_factories[i]
             called == Append(acc.fcalls, [factory |-> f, ret |-> ret[f]])
         IN  IF ret[f] = "raise"
             THEN [acc EXCEPT !.fcalls = called, !.raised = FactoryException]
             ELSE IF ret[f] = "None"
             THEN [acc EXCEPT !.fcalls = called]
             ELSE IF doc.uid = NoField
             THEN \* doc['uid'] in self.callbacks[doc['uid']].append(cb)
                  [acc EXCEPT !.fcalls = called, !.raised = KeyError]
             ELSE StartLoop_break(doc, ret, i + 1,
                     [acc EXCEPT !.fcalls = called,
                                 !.callbacks = SetItem(@, doc.uid,
                                     Append(DefaultGet(@, doc.uid), NewCallback(f, doc)))])

\* one pass of "for callback_factory in self.callback_factories" from the
\* i-th factory on; ret[f] is what factory f does with doc.  acc carries the
\* callbacks dictionary, the factory calls made and the exception, if any.
RECURSIVE StartLoop(_, _, _, _)
StartLoop(doc, ret, i, acc) ==
    IF i > Len(callback_factories) THEN acc
    ELSE LET f == callback_factories[i]
             called == Append(acc.fcalls, [factory |-> f, ret |-> ret[f]])
         IN  IF ret[f] = "raise"
             THEN [acc EXCEPT !.fcalls = called, !.raised = FactoryException]
             ELSE IF ret[f] = "None"
             THEN StartLoop(doc, ret, i + 1, [acc EXCEPT !.fcalls = called])
             ELSE IF doc.uid = NoField
             THEN \* doc['uid'] in self.callbacks[doc['uid']].append(cb)
                  [acc EXCEPT !.fcalls = called, !.raised = KeyError]
             ELSE StartLoop(doc, ret, i + 1,
                     [acc EXCEPT !.fcalls = called,
                                 !.callbacks = SetItem(@, doc.uid,
                                     Append(DefaultGet(@, doc.uid), Stored(f, doc, ret[f])))])

\* the position of run uid in its document stream after a start document
PhaseAfterStart(uid, res) ==
    IF Len(DefaultGet(res.callbacks, uid)) > Len(DefaultGet(callbacks, uid))
    THEN IF DefaultGet(callbacks, uid) = <<>> THEN "open" ELSE "extended"
    ELSE IF res.raised # NoError THEN phase[uid]
    ELSE IF phase[uid] \in {"new", "closed"} THEN "unwatched"
    ELSE phase[uid]

\* start() that also hands the start document to the callbacks of the run
start_forward(doc, ret) ==
    LET res == StartLoop(doc, ret, 1,
                         [callbacks |-> callbacks, fcalls |-> <<>>, raised |-> NoError])
    IN  /\ Len(DefaultGet(res.callbacks, doc.uid)) <= MaxCallbacks
        /\ callbacks' = res.callbacks
        /\ fcalls' = res.fcalls
        /\ raised' = res.raised
        /\ calls' = Forward(DefaultGet(res.callbacks, doc.uid), "start", doc,
                            Indices(res.callbacks, descriptors, resources))
        /\ phase' = IF doc.uid \in Runs
                    THEN [phase EXCEPT ![doc.uid] = PhaseAfterStart(doc.uid, res)]
                    ELSE phase
        /\ lastDoc' = [name |-> "start", doc |-> doc]
        /\ UNCHANGED <<descriptors, resources>>

start(doc, ret) ==
    LET res == StartLoop(doc, ret, 1,
                         [callbacks |-> callbacks, fcalls |-> <<>>, raised |-> NoError])
    IN  /\ Len(DefaultGet(res.callbacks, doc.uid)) <= MaxCallbacks
        /\ callbacks' = res.callbacks
        /\ fcalls' = res.fcalls
        /\ raised' = res.raised
        /\ calls' = <<>>
        /\ phase' = IF doc.uid \in Runs
                    THEN [phase EXCEPT ![doc.uid] = PhaseAfterStart(doc.uid, res)]
                    ELSE phase
        /\ lastDoc' = [name |-> "start", doc |-> doc]
        /\ UNCHANGED <<descriptors, resources>>

\* descriptor() without the "if not cbs: return" test
descriptor_always(doc) ==
    LET start_uid == doc.run_start
        cbs == DefaultGet(callbacks, start_uid)
    IN  /\ lastDoc' = [name |-> "descriptor", doc |-> doc]
        /\ fcalls' = <<>>
        /\ UNCHANGED <<resources, phase>>
        /\ IF start_uid = NoField \/ doc.uid = NoField
           THEN /\ raised' = KeyError
                /\ calls' = <<>>
                /\ UNCHANGED <<callbacks, descriptors>>
           ELSE /\ raised' = NoError
                /\ callbacks' = DefaultTouch(callbacks, start_uid)
                /\ descriptors' = SetItem(descriptors, doc.uid, start_uid)
                /\ calls' = Forward(cbs, "descriptor", doc,
                                    Indices(callbacks', descriptors', resources))

descriptor(doc) ==
    LET start_uid == doc.run_start
        cbs == DefaultGet(callbacks, start_uid)
    IN  /\ lastDoc' = [name |-> "descriptor", doc |-> doc]
        /\ fcalls' = <<>>
        /\ UNCHANGED <<resources, phase>>
        /\ IF start_uid = NoField
           THEN \* doc['run_start']
                /\ raised' = KeyError
                /\ calls' = <<>>
                /\ UNCHANGED <<callbacks, descriptors>>
           ELSE IF cbs = <<>>
           THEN /\ raised' = NoError
                /\ callbacks' = DefaultTouch(callbacks, start_uid)
                /\ descriptors' = descriptors
                /\ calls' = <<>>
           ELSE IF doc.uid = NoField
           THEN \* doc['uid'], after the lookup of a run that has callbacks
                /\ raised' = KeyError
                /\ calls' = <<>>
                /\ UNCHANGED <<callbacks, descriptors>>
           ELSE /\ raised' = ForwardError(cbs, "descriptor")
                /\ callbacks' = callbacks
                /\ descriptors' = SetItem(descriptors, doc.uid, start_uid)
                /\ calls' = Forward(cbs, "descriptor", doc,
                                    Indices(callbacks', descriptors', resources))

\* resource() without the "if not cbs: return" test
resource_always(doc) ==
    LET start_uid == doc.run_start
        cbs == DefaultGet(callbacks, start_uid)
    IN  /\ lastDoc' = [name |-> "resource", doc |-> doc]
        /\ fcalls' = <<>>
        /\ UNCHANGED <<descriptors, phase>>
        /\ IF start_uid = NoField \/ doc.uid = NoField
           THEN /\ raised' = KeyError
                /\ calls' = <<>>
                /\ UNCHANGED <<callbacks, resources>>
           ELSE /\ raised' = NoError
                /\ callbacks' = DefaultTouch(callbacks, start_uid)
                /\ resources' = SetItem(resources, doc.uid, start_uid)
                /\ calls' = Forward(cbs, "resource", doc,
                                    Indices(callbacks', descriptors, resources'))

resource(doc) ==
    LET start_uid == doc.run_start
        cbs == DefaultGet(callbacks, start_uid)
    IN  /\ lastDoc' = [name |-> "resource", doc |-> doc]
        /\ fcalls' = <<>>
        /\ UNCHANGED <<descriptors, phase>>
        /\ IF start_uid = NoField
           THEN \* doc['run_start']
                /\ raised' = KeyError
                /\ calls' = <<>>
                /\ UNCHANGED <<callbacks, resources>>
           ELSE IF cbs = <<>>
           THEN /\ raised' = NoError
                /\ callbacks' = DefaultTouch(callbacks, start_uid)
                /\ resources' = resources
                /\ calls' = <<>>
           ELSE IF doc.uid = NoField
           THEN \* doc['uid'], after the lookup of a run that has callbacks
                /\ raised' = KeyError
                /\ calls' = <<>>
                /\ UNCHANGED <<callbacks, resources>>
           ELSE /\ raised' = ForwardError(cbs, "resource")
                /\ callbacks' = callbacks
                /\ resources' = SetItem(resources, doc.uid, start_uid)
                /\ calls' = Forward(cbs, "resource", doc,
                                    Indices(callbacks', descriptors, resources'))

\* _event_or_bulk_event that reads the descriptor uid straight out of the
\* callbacks defaultdict when the descriptor is not registered
event_or_bulk_event_touch(doc) ==
    LET descriptor_uid == doc.descriptor
    IN  IF descriptor_uid = NoField
        THEN [cbs |-> <<>>, callbacks |-> callbacks, raised |-> KeyError]
        ELSE IF descriptor_uid \notin DOMAIN descriptors
        THEN [cbs |-> DefaultGet(callbacks, descriptor_uid),
              callbacks |-> DefaultTouch(callbacks, descriptor_uid), raised |-> NoError]
        ELSE [cbs |-> DefaultGet(callbacks, descriptors[descriptor_uid]),
              callbacks |-> DefaultTouch(callbacks, descriptors[descriptor_uid]),
              raised |-> NoError]

\* _event_or_bulk_event that returns the callbacks of every run once the
\* descriptor is known
event_or_bulk_event_all(doc) ==
    LET descriptor_uid == doc.descriptor
    IN  IF descriptor_uid = NoField
        THEN [cbs |-> <<>>, callbacks |-> callbacks, raised |-> KeyError]
        ELSE IF descriptor_uid \notin DOMAIN descriptors
        THEN [cbs |-> <<>>, callbacks |-> callbacks, raised |-> NoError]
        ELSE [cbs |-> DefaultGet(callbacks, "r1") \o DefaultGet(callbacks, "r2"),
              callbacks |-> DefaultTouch(callbacks, descriptors[descriptor_uid]),
              raised |-> NoError]

\* _event_or_bulk_event: the callbacks to call and the dictionary left behind
event_or_bulk_event(doc) ==
    LET descriptor_uid == doc.descriptor
    IN  IF descriptor_uid = NoField
        THEN [cbs |-> <<>>, callbacks |-> callbacks, raised |-> KeyError]
        ELSE IF descriptor_uid \notin DOMAIN descriptors
        THEN [cbs |-> <<>>, callbacks |-> callbacks, raised |-> NoError]
        ELSE [cbs |-> DefaultGet(callbacks, descriptors[descriptor_uid]),
              callbacks |-> DefaultTouch(callbacks, descriptors[descriptor_uid]),
              raised |-> NoError]

\* _datum_or_bulk_datum without the try/except: the resource uid is looked
\* up in the callbacks defaultdict when it is not registered
datum_or_bulk_datum_touch(doc) ==
    LET resource_uid == doc.resource
    IN  IF resource_uid = NoField
        THEN [cbs |-> <<>>, callbacks |-> callbacks, raised |-> KeyError]
        ELSE IF resource_uid \notin DOMAIN resources
        THEN [cbs |-> DefaultGet(callbacks, resource_uid),
              callbacks |-> DefaultTouch(callbacks, resource_uid), raised |-> NoError]
        ELSE [cbs |-> DefaultGet(callbacks, resources[resource_uid]),
              callbacks |-> DefaultTouch(callbacks, resources[resource_uid]),
              raised |-> NoError]

\* _datum_or_bulk_datum that returns self.callbacks[start_uid][:1]
datum_or_bulk_datum_first(doc) ==
    LET resource_uid == doc.resource
    IN  IF resource_uid = NoField
        THEN [cbs |-> <<>>, callbacks |-> callbacks, raised |-> KeyError]
        ELSE IF resource_uid \notin DOMAIN resources
        THEN [cbs |-> <<>>, callbacks |-> callbacks, raised |-> NoError]
        ELSE [cbs |-> SubSeq(DefaultGet(callbacks, resources[resource_uid]), 1, 1),
              callbacks |-> DefaultTouch(callbacks, resources[resource_uid]),
              raised |-> NoError]

\* _datum_or_bulk_datum
datum_or_bulk_datum(doc) ==
    LET resource_uid == doc.resource
    IN  IF resource_uid = NoField
        THEN [cbs |-> <<>>, callbacks |-> callbacks, raised |-> KeyError]
        ELSE IF resource_uid \notin DOMAIN resources
        THEN [cbs |-> <<>>, callbacks |-> callbacks, raised |-> NoError]
        ELSE [cbs |-> DefaultGet(callbacks, resources[resource_uid]),
              callbacks |-> DefaultTouch(callbacks, resources[resource_uid]),
              raised |-> NoError]

\* the body shared by event, bulk_event, datum and bulk_datum
ForwardLookup(found, name, doc) ==
    /\ callbacks' = found.callbacks
    /\ calls' = Forward(found.cbs, name, doc,
                        Indices(found.callbacks, descriptors, resources))
    /\ lastDoc' = [name |-> name, doc |-> doc]
    /\ fcalls' = <<>>
    /\ raised' = IF found.raised # NoError THEN found.raised
                  ELSE ForwardError(found.cbs, name)
    /\ UNCHANGED <<descriptors, resources, phase>>

event(doc) == ForwardLookup(event_or_bulk_event(doc), "event", doc)

bulk_event(doc) == ForwardLookup(event_or_bulk_event(doc), "bulk_event", doc)

datum(doc) == ForwardLookup(datum_or_bulk_datum(doc), "datum", doc)

bulk_datum(doc) == ForwardLookup(datum_or_bulk_datum(doc), "bulk_datum", doc)

\* stop() that calls the callbacks before it cleans up the references
stop_forward_first(doc) ==
    LET start_uid == doc.run_start
    IN  /\ lastDoc' = [name |-> "stop", doc |-> doc]
        /\ fcalls' = <<>>
        /\ IF start_uid = NoField \/ start_uid \notin DOMAIN callbacks
           THEN \* doc['run_start'], or self.callbacks.pop(start_uid) on a
                \* missing key
                /\ raised' = KeyError
                /\ calls' = <<>>
                /\ UNCHANGED <<callbacks, descriptors, resources, phase>>
           ELSE LET cbs == callbacks[start_uid]
                IN  /\ callbacks' = DelItem(callbacks, start_uid)
                    /\ raised' = NoError
                    /\ phase' = [phase EXCEPT ![start_uid] = "closed"]
                    /\ IF cbs = <<>>
                       THEN /\ calls' = <<>>
                            /\ UNCHANGED <<descriptors, resources>>
                       ELSE /\ descriptors' = PurgeRun(descriptors, start_uid)
                            /\ resources' = PurgeRun(resources, start_uid)
                            /\ calls' = Forward(cbs, "stop", doc,
                                   Indices(callbacks, descriptors, resources))

stop(doc) ==
    LET start_uid == doc.run_start
    IN  /\ lastDoc' = [name |-> "stop", doc |-> doc]
        /\ fcalls' = <<>>
        /\ IF start_uid = NoField \/ start_uid \notin DOMAIN callbacks
           THEN \* doc['run_start'], or self.callbacks.pop(start_uid) on a
                \* missing key
                /\ raised' = KeyError
                /\ calls' = <<>>
                /\ UNCHANGED <<callbacks, descriptors, resources, phase>>
           ELSE LET cbs == callbacks[start_uid]
                IN  /\ callbacks' = DelItem(callbacks, start_uid)
                    /\ raised' = ForwardError(cbs, "stop")
                    /\ phase' = [phase EXCEPT ![start_uid] = "closed"]
                    /\ IF cbs = <<>>
                       THEN /\ calls' = <<>>
                            /\ UNCHANGED <<descriptors, resources>>
                       ELSE /\ descriptors' = PurgeRun(descriptors, start_uid)
                            /\ resources' = PurgeRun(resources, start_uid)
                            /\ calls' = Forward(cbs, "stop", doc,
                                   Indices(callbacks', descriptors', resources'))

\* CallbackBase.__call__: getattr(self, name)(doc), each call run to its end
\* before the next one is made
Next ==
    \/ \E doc \in StartDocs, ret \in [FactoryNames -> Returns] :
           start(doc, ret) /\ UNCHANGED inflight
    \/ \E doc \in DescriptorDocs : descriptor(doc) /\ UNCHANGED inflight
    \/ \E doc \in ResourceDocs : resource(doc) /\ UNCHANGED inflight
    \/ \E doc \in EventDocs : event(doc) /\ UNCHANGED inflight
    \/ \E doc \in EventDocs : bulk_event(doc) /\ UNCHANGED inflight
    \/ \E doc \in DatumDocs : datum(doc) /\ UNCHANGED inflight
    \/ \E doc \in DatumDocs : bulk_datum(doc) /\ UNCHANGED inflight
    \/ \E doc \in StopDocs : stop(doc) /\ UNCHANGED inflight

Spec == Init /\ [][Next]_vars

(* ------------- the router with the repository's own factories ---------- *)

\* test.py: RunRouter(callback_factories) with factories of
\* callback_factories.py, documents arriving one call at a time
NextRepository ==
    \/ \E doc \in StartDocs, ret \in [FactoryNames -> RepositoryReturns] :
           start(doc, ret) /\ UNCHANGED inflight
    \/ \E doc \in DescriptorDocs : descriptor(doc) /\ UNCHANGED inflight
    \/ \E doc \in ResourceDocs : resource(doc) /\ UNCHANGED inflight
    \/ \E doc \in EventDocs : event(doc) /\ UNCHANGED inflight
    \/ \E doc \in EventDocs : bulk_event(doc) /\ UNCHANGED inflight
    \/ \E doc \in DatumDocs : datum(doc) /\ UNCHANGED inflight
    \/ \E doc \in DatumDocs : bulk_datum(doc) /\ UNCHANGED inflight
    \/ \E doc \in StopDocs : stop(doc) /\ UNCHANGED inflight

SpecRepository == Init /\ [][NextRepository]_vars

(* ---------- the router with subscribers derived from Callback ---------- *)

NextCallback ==
    \/ \E doc \in StartDocs, ret \in [FactoryNames -> CallbackReturns] :
           start(doc, ret) /\ UNCHANGED inflight
    \/ \E doc \in DescriptorDocs : descriptor(doc) /\ UNCHANGED inflight
    \/ \E doc \in ResourceDocs : resource(doc) /\ UNCHANGED inflight
    \/ \E doc \in EventDocs : event(doc) /\ UNCHANGED inflight
    \/ \E doc \in EventDocs : bulk_event(doc) /\ UNCHANGED inflight
    \/ \E doc \in DatumDocs : datum(doc) /\ UNCHANGED inflight
    \/ \E doc \in DatumDocs : bulk_datum(doc) /\ UNCHANGED inflight
    \/ \E doc \in StopDocs : stop(doc) /\ UNCHANGED inflight

SpecCallback == Init /\ [][NextCallback]_vars

(* ----------------- two producers calling the router at once ------------ *)
(* The router takes no lock, so a thread switch can fall between two        *)
(* statements of a handler.  stop and event are cut where they read or      *)
(* write the dictionaries a second time: stop after the pop of its list,    *)
(* event after the lookup of its descriptor.                                *)

AllIdle == \A p \in Producers : inflight[p].pc = "idle"

\* stop(), up to and including "if not cbs: return"
stop_pop(p, doc) ==
    LET start_uid == doc.run_start
    IN  /\ inflight[p].pc = "idle"
        /\ UNCHANGED <<descriptors, resources>>
        /\ IF start_uid = NoField \/ start_uid \notin DOMAIN callbacks
           THEN /\ raised' = KeyError
                /\ calls' = <<>>
                /\ fcalls' = <<>>
                /\ lastDoc' = [name |-> "stop", doc |-> doc]
                /\ UNCHANGED <<callbacks, phase, inflight>>
           ELSE /\ callbacks' = DelItem(callbacks, start_uid)
                /\ phase' = [phase EXCEPT ![start_uid] = "closed"]
                /\ IF callbacks[start_uid] = <<>>
                   THEN /\ raised' = NoError
                        /\ calls' = <<>>
                        /\ fcalls' = <<>>
                        /\ lastDoc' = [name |-> "stop", doc |-> doc]
                        /\ UNCHANGED inflight
                   ELSE /\ inflight' = [inflight EXCEPT ![p] =
                               [pc |-> "stop_popped", name |-> "stop", doc |-> doc,
                                start_uid |-> start_uid, cbs |-> callbacks[start_uid]]]
                        /\ UNCHANGED <<lastDoc, calls, fcalls, raised>>

\* stop(), from the deletion loops to the end
stop_purge(p) ==
    LET f == inflight[p]
    IN  /\ f.pc = "stop_popped"
        /\ descriptors' = PurgeRun(descriptors, f.start_uid)
        /\ resources' = PurgeRun(resources, f.start_uid)
        /\ calls' = Forward(f.cbs, "stop", f.doc,
                            Indices(callbacks, descriptors', resources'))
        /\ lastDoc' = [name |-> "stop", doc |-> f.doc]
        /\ raised' = ForwardError(f.cbs, "stop")
        /\ fcalls' = <<>>
        /\ inflight' = [inflight EXCEPT ![p] = Idle]
        /\ UNCHANGED <<callbacks, phase>>

\* event(), up to the end of the try/except of _event_or_bulk_event
event_resolve(p, doc) ==
    LET descriptor_uid == doc.descriptor
    IN  /\ inflight[p].pc = "idle"
        /\ UNCHANGED <<callbacks, descriptors, resources, phase>>
        /\ IF descriptor_uid = NoField \/ descriptor_uid \notin DOMAIN descriptors
           THEN /\ raised' = IF descriptor_uid = NoField THEN KeyError ELSE NoError
                /\ calls' = <<>>
                /\ fcalls' = <<>>
                /\ lastDoc' = [name |-> "event", doc |-> doc]
                /\ UNCHANGED inflight
           ELSE /\ inflight' = [inflight EXCEPT ![p] =
                       [pc |-> "event_resolved", name |-> "event", doc |-> doc,
                        start_uid |-> descriptors[descriptor_uid], cbs |-> <<>>]]
                /\ UNCHANGED <<lastDoc, calls, fcalls, raised>>

\* event(), from "return self.callbacks[start_uid]" to the end
event_forward(p) ==
    LET f == inflight[p]
    IN  /\ f.pc = "event_resolved"
        /\ callbacks' = DefaultTouch(callbacks, f.start_uid)
        /\ calls' = Forward(DefaultGet(callbacks, f.start_uid), "event", f.doc,
                            Indices(callbacks', descriptors, resources))
        /\ lastDoc' = [name |-> "event", doc |-> f.doc]
        /\ raised' = ForwardError(DefaultGet(callbacks, f.start_uid), "event")
        /\ fcalls' = <<>>
        /\ inflight' = [inflight EXCEPT ![p] = Idle]
        /\ UNCHANGED <<descriptors, resources, phase>>

\* the other handlers are called while no producer is inside the router
NextConcurrent ==
    \/ \E doc \in StartDocs, ret \in [FactoryNames -> Returns] :
           AllIdle /\ start(doc, ret) /\ UNCHANGED inflight
    \/ \E doc \in DescriptorDocs : AllIdle /\ descriptor(doc) /\ UNCHANGED inflight
    \/ \E p \in Producers, doc \in StopDocs : stop_pop(p, doc)
    \/ \E p \in Producers : stop_purge(p)
    \/ \E p \in Producers, doc \in EventDocs : event_resolve(p, doc)
    \/ \E p \in Producers : event_forward(p)

SpecConcurrent == Init /\ [][NextConcurrent]_vars

(* ------------------------------ properties ----------------------------- *)

\* the run a submitted document refers to, directly or through the
\* descriptor or resource uid it names
RunOf(ld) ==
    IF ld.name = "start" THEN ld.doc.uid
    ELSE IF ld.name \in {"descriptor", "resource", "stop"} THEN ld.doc.run_start
    ELSE IF ld.name \in {"event", "bulk_event"}
    THEN IF ld.doc.descriptor = NoField THEN NoField ELSE Owner(ld.doc.descriptor)
    ELSE IF ld.name \in {"datum", "bulk_datum"}
    THEN IF ld.doc.resource = NoField THEN NoField ELSE Owner(ld.doc.resource)
    ELSE NoField

IndicesUnchanged == UNCHANGED <<callbacks, descriptors, resources>>

\* no error, no delivery, no change to the three indices
NoOpStep == raised' = NoError /\ calls' = <<>> /\ IndicesUnchanged

\* C1: in the state reached by submit(stop) for run R, the run->subscribers
\* index has no key R and neither the descriptor->run nor the resource->run
\* index has an entry whose value is R.
C1_StopPurgesRun ==
    lastDoc.name = "stop" =>
        LET R == lastDoc.doc.run_start
        IN  /\ R \notin DOMAIN callbacks
            /\ \A d \in DOMAIN descriptors : descriptors[d] # R
            /\ \A s \in DOMAIN resources : resources[s] # R

\* a stop that was forwarded to the subscribers of its run while the other
\* run keeps its descriptor and resource entries
C1_Witness ==
    /\ lastDoc.name = "stop"
    /\ raised = NoError
    /\ calls # <<>>
    /\ descriptors # <<>>
    /\ resources # <<>>

\* C2: once submit(stop) for run R has been processed, every later
\* descriptor, resource, event, bulk_event, datum, bulk_datum or stop that
\* refers to R raises nothing, delivers nothing and changes no index.
C2_AfterStopNoOp ==
    [][\A R \in Runs :
        (/\ phase[R] = "closed"
         /\ lastDoc'.name # "start"
         /\ RunOf(lastDoc') = R) => NoOpStep]_vars

\* C3: submit(stop) naming a run that was never started raises nothing,
\* delivers nothing and leaves the three indices unchanged.
C3_StopUnknownNoOp ==
    [][\A R \in Runs :
        (/\ phase[R] = "new"
         /\ lastDoc'.name = "stop"
         /\ lastDoc'.doc.run_start = R) => NoOpStep]_vars

\* C4: for a run whose start document every factory answered with None,
\* every later descriptor, resource, event, datum and stop of that run
\* returns without raising.
C4_UnwatchedNeverRaises ==
    [][\A R \in Runs :
        (/\ phase[R] = "unwatched"
         /\ lastDoc'.name # "start"
         /\ RunOf(lastDoc') = R) => raised' = NoError]_vars

\* C5 as claimed: after the start of a run no factory accepts, a later
\* descriptor (resource) with that run_start puts descriptor uid -> run uid
\* (resource uid -> run uid) in the descriptor (resource) index.
C5_UnwatchedRegisters ==
    [][\A R \in Runs :
        /\ (phase[R] = "unwatched" /\ lastDoc'.name = "descriptor"
                /\ lastDoc'.doc.run_start = R)
               => (lastDoc'.doc.uid \in DOMAIN descriptors'
                       /\ descriptors'[lastDoc'.doc.uid] = R)
        /\ (phase[R] = "unwatched" /\ lastDoc'.name = "resource"
                /\ lastDoc'.doc.run_start = R)
               => (lastDoc'.doc.uid \in DOMAIN resources'
                       /\ resources'[lastDoc'.doc.uid] = R)]_vars

\* C5 amended: the start of a run no factory accepts leaves run->subscribers
\* as it was, and a later descriptor (resource) with that run_start adds
\* nothing to the descriptor (resource) index and is forwarded to no one; all
\* it leaves is an empty list under the run uid in run->subscribers.
C5_UnwatchedDropped ==
    [][\A R \in Runs :
        /\ (lastDoc'.name = "start" /\ lastDoc'.doc.uid = R /\ phase'[R] = "unwatched")
               => callbacks' = callbacks
        /\ (phase[R] = "unwatched" /\ lastDoc'.name \in {"descriptor", "resource"}
                /\ lastDoc'.doc.run_start = R)
               => /\ UNCHANGED <<descriptors, resources>>
                  /\ calls' = <<>>
                  /\ raised' = NoError
                  /\ callbacks' = SetItem(callbacks, R, <<>>)]_vars

\* a descriptor of a run whose start no factory accepted has been handled
C5_Witness ==
    /\ lastDoc.name = "descriptor"
    /\ lastDoc.doc.run_start \in Runs
    /\ phase[lastDoc.doc.run_start] = "unwatched"
    /\ lastDoc.doc.run_start \in DOMAIN callbacks
    /\ lastDoc.doc.uid \notin DOMAIN descriptors

\* the callbacks the factories returned, in the order they were called
RECURSIVE Returned(_, _)
Returned(log, doc) ==
    IF log = <<>> THEN <<>>
    ELSE IF Head(log).ret = "cb"
         THEN <<NewCallback(Head(log).factory, doc)>> \o Returned(Tail(log), doc)
         ELSE Returned(Tail(log), doc)

\* C6: after submit(start) with a uid that is not yet a key of
\* run->subscribers, and no factory raising, every factory has been called
\* once in registration order and the run's callback list is exactly what the
\* factories that did not return None returned, in that order.
C6_StartCollectsInOrder ==
    [][(/\ lastDoc'.name = "start"
        /\ lastDoc'.doc.uid \in Runs
        /\ lastDoc'.doc.uid \notin DOMAIN callbacks
        /\ raised' = NoError)
       => /\ [i \in DOMAIN fcalls' |-> fcalls'[i].factory] = callback_factories
          /\ DefaultGet(callbacks', lastDoc'.doc.uid) = Returned(fcalls', lastDoc'.doc)
          /\ \A r \in Runs \ {lastDoc'.doc.uid} :
                 DefaultGet(callbacks', r) = DefaultGet(callbacks, r)]_vars

\* a start the first factory declined and the second accepted
C6_Witness ==
    /\ lastDoc.name = "start"
    /\ raised = NoError
    /\ fcalls = <<[factory |-> "f1", ret |-> "None"], [factory |-> "f2", ret |-> "cb"]>>
    /\ DefaultGet(callbacks, lastDoc.doc.uid) = <<NewCallback("f2", lastDoc.doc)>>

\* C7: an event or bulk_event whose descriptor uid is not in the descriptor
\* index raises nothing, calls no subscriber and leaves the three indices,
\* the key set of run->subscribers included, unchanged.
C7_UnknownDescriptorNoOp ==
    [][(/\ lastDoc'.name \in {"event", "bulk_event"}
        /\ lastDoc'.doc.descriptor \in DescUids
        /\ lastDoc'.doc.descriptor \notin DOMAIN descriptors) => NoOpStep]_vars

\* an event for an unregistered descriptor arrived while some run had
\* subscribers
C7_Witness ==
    /\ lastDoc.name \in {"event", "bulk_event"}
    /\ lastDoc.doc.descriptor \in DescUids
    /\ lastDoc.doc.descriptor \notin DOMAIN descriptors
    /\ \E r \in DOMAIN callbacks : callbacks[r] # <<>>

\* C8: a datum or bulk_datum whose resource uid is not in the resource index
\* raises nothing, calls no subscriber and leaves the three indices unchanged.
C8_UnknownResourceNoOp ==
    [][(/\ lastDoc'.name \in {"datum", "bulk_datum"}
        /\ lastDoc'.doc.resource \in ResUids
        /\ lastDoc'.doc.resource \notin DOMAIN resources) => NoOpStep]_vars

\* a datum for an unregistered resource arrived while some run had
\* subscribers
C8_Witness ==
    /\ lastDoc.name \in {"datum", "bulk_datum"}
    /\ lastDoc.doc.resource \in ResUids
    /\ lastDoc.doc.resource \notin DOMAIN resources
    /\ \E r \in DOMAIN callbacks : callbacks[r] # <<>>

\* C9: with the uids of the two runs disjoint, every callback a document is
\* forwarded to was created for the run the document refers to, whatever the
\* interleaving of the two streams.
C9_RunIsolation ==
    \A i \in DOMAIN calls : calls[i].cb.run = RunOf(lastDoc)

\* an event was delivered while both runs had subscribers and a registered
\* descriptor each
C9_Witness ==
    /\ lastDoc.name \in {"event", "bulk_event"}
    /\ calls # <<>>
    /\ \A r \in Runs : DefaultGet(callbacks, r) # <<>>
    /\ DOMAIN descriptors = DescUids

\* C10: submit(start) with a uid that already has a non-empty subscriber
\* list fails with DuplicateRunError and leaves that list as it was.
C10_DuplicateStartRejected ==
    [][(/\ lastDoc'.name = "start"
        /\ DefaultGet(callbacks, lastDoc'.doc.uid) # <<>>)
       => /\ raised' = "DuplicateRunError"
          /\ callbacks' = callbacks]_vars

\* C11: when a factory raises during submit(start), the error reaches the
\* caller and run->subscribers is left as it was before the call: the
\* callbacks earlier factories returned are not registered.
C11_FactoryErrorLeavesNothing ==
    [][(/\ lastDoc'.name = "start"
        /\ \E i \in DOMAIN fcalls' : fcalls'[i].ret = "raise")
       => /\ raised' = FactoryException
          /\ callbacks' = callbacks]_vars

\* the callbacks every subscriber of run R is sent for document ld, once
\* each and in the order of the run's list
OncePerSubscriber(cbs, ld) ==
    [i \in 1..Len(cbs) |-> [cb |-> cbs[i], name |-> ld.name, doc |-> ld.doc]]

\* what was delivered, without the router's dictionaries at call time
Delivered(cs) ==
    [i \in 1..Len(cs) |-> [cb |-> cs[i].cb, name |-> cs[i].name, doc |-> cs[i].doc]]

WellFormedRegistration(ld) ==
    /\ ld.name \in {"descriptor", "resource"}
    /\ ld.doc.uid # NoField
    /\ ld.doc.run_start # NoField

\* the index a descriptor or resource document is recorded in
IndexOf(ld, dm, rm) == IF ld.name = "descriptor" THEN dm ELSE rm

\* C12 as claimed, a known run being one whose start has been processed and
\* whose stop has not: a descriptor (resource) of a known run is recorded as
\* uid -> run uid and forwarded once to every subscriber of the run in list
\* order; one of an unknown run raises nothing, is delivered to no one and
\* leaves the descriptor (resource) index alone.
C12_RegistersForKnownRun ==
    [][\A R \in Runs :
        (WellFormedRegistration(lastDoc') /\ lastDoc'.doc.run_start = R)
        => IF phase[R] \in {"open", "extended", "unwatched"}
           THEN /\ raised' = NoError
                /\ lastDoc'.doc.uid \in DOMAIN IndexOf(lastDoc', descriptors', resources')
                /\ IndexOf(lastDoc', descriptors', resources')[lastDoc'.doc.uid] = R
                /\ Delivered(calls') = OncePerSubscriber(DefaultGet(callbacks, R), lastDoc')
           ELSE /\ raised' = NoError
                /\ calls' = <<>>
                /\ UNCHANGED <<descriptors, resources>>]_vars

\* C12 amended: a descriptor (resource) whose run_start names a run that has
\* at least one subscriber is recorded as uid -> run uid and forwarded once to
\* every subscriber of the run in list order; for any other run_start (never
\* started, stopped, or started with no factory accepting) it raises nothing,
\* is delivered to no one and leaves the descriptor (resource) index alone.
C12_RegistersForWatchedRun ==
    [][\A R \in Runs :
        (WellFormedRegistration(lastDoc') /\ lastDoc'.doc.run_start = R)
        => IF DefaultGet(callbacks, R) # <<>>
           THEN /\ raised' = NoError
                /\ IndexOf(lastDoc', descriptors', resources')
                       = SetItem(IndexOf(lastDoc', descriptors, resources),
                                 lastDoc'.doc.uid, R)
                /\ Delivered(calls') = OncePerSubscriber(callbacks[R], lastDoc')
                /\ callbacks' = callbacks
           ELSE /\ raised' = NoError
                /\ calls' = <<>>
                /\ UNCHANGED <<descriptors, resources>>]_vars

\* a descriptor was recorded and forwarded to the two subscribers of its run
C12_Witness ==
    /\ WellFormedRegistration(lastDoc)
    /\ lastDoc.name = "descriptor"
    /\ Len(calls) = 2
    /\ calls[1].cb # calls[2].cb
    /\ lastDoc.doc.uid \in DOMAIN descriptors
    /\ descriptors[lastDoc.doc.uid] = lastDoc.doc.run_start

\* the place of factory f in callback_factories
FactoryIndex(f) == CHOOSE k \in DOMAIN callback_factories : callback_factories[k] = f

\* the callbacks of a list come from factories in registration order
InFactoryOrder(cbs) ==
    \A i, j \in DOMAIN cbs :
        i < j => FactoryIndex(cbs[i].factory) < FactoryIndex(cbs[j].factory)

\* the run an event or datum document resolves to, NoField when its
\* descriptor or resource is not registered
Resolved(ld) ==
    IF ld.name \in {"event", "bulk_event"}
    THEN IF ld.doc.descriptor \in DOMAIN descriptors
         THEN descriptors[ld.doc.descriptor] ELSE NoField
    ELSE IF ld.name \in {"datum", "bulk_datum"}
    THEN IF ld.doc.resource \in DOMAIN resources
         THEN resources[ld.doc.resource] ELSE NoField
    ELSE NoField

Malformed(ld) ==
    \/ ld.name = "start" /\ ld.doc.uid = NoField
    \/ ld.name \in {"descriptor", "resource"}
           /\ (ld.doc.uid = NoField \/ ld.doc.run_start = NoField)
    \/ ld.name \in {"event", "bulk_event"} /\ ld.doc.descriptor = NoField
    \/ ld.name \in {"datum", "bulk_datum"} /\ ld.doc.resource = NoField
    \/ ld.name = "stop" /\ ld.doc.run_start = NoField

\* C14: submit of a document that lacks a field required for its kind ends
\* in an error propagated to the caller, in every router state, and leaves
\* the three indices unchanged.  (Any propagated exception is accepted here
\* as the claim's MalformedDocumentError.)
C14_MalformedAlwaysFails ==
    [][Malformed(lastDoc') => (raised' # NoError /\ IndicesUnchanged)]_vars

ForwardedKinds ==
    {"descriptor", "resource", "event", "bulk_event", "datum", "bulk_datum", "stop"}

\* C15: no callback is ever called with a start document; every call made
\* during a submit carries the submitted document under the name it was
\* submitted with, one of descriptor, resource, event, bulk_event, datum,
\* bulk_datum and stop.
C15_ForwardedUnderOwnName ==
    \A i \in DOMAIN calls :
        /\ calls[i].name = lastDoc.name
        /\ calls[i].doc = lastDoc.doc
        /\ calls[i].name \in ForwardedKinds

\* a start both factories accepted: two callbacks registered, none called
C15_Witness ==
    /\ lastDoc.name = "start"
    /\ raised = NoError
    /\ Len(Returned(fcalls, lastDoc.doc)) = 2
    /\ Len(DefaultGet(callbacks, lastDoc.doc.uid)) = 2
    /\ calls = <<>>

\* a stop document of a run that has callbacks is being handled
StopOfWatchedRun(R) ==
    /\ lastDoc'.name = "stop"
    /\ lastDoc'.doc.run_start = R
    /\ DefaultGet(callbacks, R) # <<>>

\* C16 as claimed: while the stop document is forwarded, the run's key in
\* run->subscribers and its descriptor and resource entries are still there;
\* they are gone once the handler returns.
C16_ForwardThenPurge ==
    [][\A R \in Runs :
        StopOfWatchedRun(R)
        => /\ Delivered(calls') = OncePerSubscriber(callbacks[R], lastDoc')
           /\ \A i \in DOMAIN calls' :
                  calls'[i].at = Indices(callbacks, descriptors, resources)
           /\ R \notin DOMAIN callbacks'
           /\ descriptors' = PurgeRun(descriptors, R)
           /\ resources' = PurgeRun(resources, R)]_vars

\* C16 amended: the run's key in run->subscribers and its descriptor and
\* resource entries are removed first; the stop document is then forwarded
\* once to every callback of the removed list, in list order, the entries
\* being already absent during each call.
C16_PurgeThenForward ==
    [][\A R \in Runs :
        StopOfWatchedRun(R)
        => /\ Delivered(calls') = OncePerSubscriber(callbacks[R], lastDoc')
           /\ \A i \in DOMAIN calls' :
                  /\ calls'[i].at = Indices(callbacks', descriptors', resources')
                  /\ R \notin calls'[i].at.runs
                  /\ \A d \in DOMAIN calls'[i].at.descriptors :
                         calls'[i].at.descriptors[d] # R
                  /\ \A u \in DOMAIN calls'[i].at.resources :
                         calls'[i].at.resources[u] # R
           /\ R \notin DOMAIN callbacks'
           /\ descriptors' = PurgeRun(descriptors, R)
           /\ resources' = PurgeRun(resources, R)]_vars

\* the two callbacks of a run were sent its stop document while the other
\* run was still registered with a descriptor
C16_Witness ==
    /\ lastDoc.name = "stop"
    /\ Len(calls) = 2
    /\ lastDoc.doc.run_start \notin calls[1].at.runs
    /\ calls[1].at.runs # {}
    /\ calls[1].at.descriptors # <<>>

\* C17: while a run has a non-empty callback list, no submit other than the
\* stop of that run changes the list.
C17_SubscriberSetImmutable ==
    [][\A R \in Runs :
        (/\ DefaultGet(callbacks, R) # <<>>
         /\ ~(lastDoc'.name = "stop" /\ lastDoc'.doc.run_start = R))
        => DefaultGet(callbacks', R) = callbacks[R]]_vars

\* the entries of a descriptor or resource dictionary whose value is run B
EntriesOf(index, B) == {k \in DOMAIN index : index[k] = B}

C20_StopDeliveredOnce ==
    [][\A R \in Runs :
        /\ StopOfWatchedRun(R)
               => Delivered(calls') = OncePerSubscriber(callbacks[R], lastDoc')
        /\ phase[R] = "closed"
               => \A i \in DOMAIN calls' :
                      ~(calls'[i].name = "stop" /\ calls'[i].cb.run = R)]_vars

\* a further stop arrived for a run that had already been stopped
C20_Witness ==
    /\ lastDoc.name = "stop"
    /\ lastDoc.doc.run_start \in Runs
    /\ phase[lastDoc.doc.run_start] = "closed"
    /\ raised = KeyError
    /\ calls = <<>>

\* C19: with two producers inside the router, no call sees a state another
\* call has left half-done: an event that has resolved its descriptor to a
\* run finds that run's key in run->subscribers (a stop that has popped the
\* key has also deleted the descriptor entries).
C19_NoPartialInterleaving ==
    \A p \in Producers :
        inflight[p].pc = "event_resolved" => inflight[p].start_uid \in DOMAIN callbacks

\* the run a descriptor, event or stop document is forwarded for, NoField
\* when the document names none or its descriptor is not registered
ForwardedFor(ld) ==
    IF ld.name = "descriptor"
    THEN IF ld.doc.uid = NoField THEN NoField ELSE ld.doc.run_start
    ELSE IF ld.name = "stop" THEN ld.doc.run_start
    ELSE IF ld.name = "event" THEN Resolved(ld)
    ELSE NoField

\* C21: with the factories of callback_factories.py, every object stored in
\* a run's list is a single callable, and a descriptor, event or stop of a
\* run the factories accepted is forwarded to each of them by cb(name, doc)
\* without error.
C21_RepositoryFactoriesForward ==
    [][\A R \in Runs :
        (ForwardedFor(lastDoc') = R /\ DefaultGet(callbacks, R) # <<>>)
        => /\ \A i \in DOMAIN callbacks[R] : callbacks[R][i].kind # "list"
           /\ raised' = NoError
           /\ Delivered(calls') = OncePerSubscriber(callbacks[R], lastDoc')]_vars

\* C22: a subscriber that is an instance of a class derived from Callback
\* and overrides nothing takes every document the router forwards to it, of
\* whichever kind, without error.
C22_CallbackHandlesEveryKind ==
    [][\A i \in DOMAIN calls' :
        calls'[i].cb.kind = "Callback"
        => /\ calls'[i].name \in ForwardedKinds
           /\ Call(calls'[i].cb, calls'[i].name) = NoError
           /\ raised' = NoError]_vars

\* C23: every key of run->subscribers is the uid of a run whose start has
\* been processed and whose stop has not; no lookup made for a descriptor,
\* resource, event or datum adds a key for a run that was not started.
C23_KeysAreStartedRuns ==
    \A r \in DOMAIN callbacks :
        r \in Runs /\ phase[r] \in {"open", "extended", "unwatched"}

\* C24: under sequential calls, every value of the descriptor->run index
\* and of the resource->run index is a key of run->subscribers with a
\* non-empty list, so an event or datum resolved through a registered
\* descriptor or resource finds its run.
C24_IndexedRunsAreWatched ==
    /\ \A d \in DOMAIN descriptors :
           /\ descriptors[d] \in DOMAIN callbacks
           /\ callbacks[descriptors[d]] # <<>>
    /\ \A u \in DOMAIN resources :
           /\ resources[u] \in DOMAIN callbacks
           /\ callbacks[resources[u]] # <<>>

\* a datum was resolved through a registered resource, after another run
\* was stopped, while a descriptor is registered as well
C24_Witness ==
    /\ lastDoc.name = "datum"
    /\ calls # <<>>
    /\ descriptors # <<>>
    /\ \E r \in Runs : phase[r] = "closed"

====
